---- MODULE Spec2Model ----
(***************************************************************************)
(* Model of scripts/archive_and_post.py: one batch run fetches the         *)
(* statistics, archives them under data/<YYYY>/<MM>/<YYYY-MM-DD>.json,     *)
(* locates the previous snapshot, composes the report, prints it and       *)
(* publishes it best-effort.                                               *)
(*                                                                         *)
(* Text (file names, report lines) is a sequence of one-character strings  *)
(* (fixed labels are single tokens), so that formatting and parsing are    *)
(* computed and not assumed to be inverse to each other.                   *)
(* users_growth_rate_per_second is kept in units of 1/RateScale.           *)
(* Directory entries are files only; a directory named like a snapshot is  *)
(* not modelled.                                                           *)
(***************************************************************************)
EXTENDS Integers, Sequences, FiniteSets, TLC

\* ------------------------------------------------------------------ bounds
\* number of midnights that may pass after the first day
MaxDay == 2
\* number of invocations of the script
MaxRuns == 2

\* Optional[T]: None is the empty sequence, a value x is <<x>>
None == <<>>

Some(x) == <<x>>

TheValue(o) == o[1]

\* ------------------------------------------------------------ text helpers
DigitChar == <<"0", "1", "2", "3", "4", "5", "6", "7", "8", "9">>

DigitVal(c) == CHOOSE i \in 0..9 : DigitChar[i + 1] = c

IsDigit(c) == \E i \in 0..9 : DigitChar[i + 1] = c

RECURSIVE Digits(_)
\* decimal digits of a natural number, as "%d" prints them
Digits(n) == IF n < 10 THEN <<DigitChar[n + 1]>>
             ELSE Digits(n \div 10) \o <<DigitChar[(n % 10) + 1]>>

RECURSIVE Zeros(_)
Zeros(k) == IF k <= 0 THEN <<>> ELSE <<"0">> \o Zeros(k - 1)

\* f"{n:0wd}" and strftime's zero-padded fields
ZeroPad(n, w) == Zeros(w - Len(Digits(n))) \o Digits(n)

RECURSIVE Grouped(_)
Grouped(n) == IF n < 1000 THEN Digits(n)
              ELSE Grouped(n \div 1000) \o <<",">> \o ZeroPad(n % 1000, 3)

\* f"{n:,}"
human_int(n) == IF n < 0 THEN <<"-">> \o Grouped(0 - n) ELSE Grouped(n)

\* the rate is held in units of 1/RateScale: four decimal places
RateScale == 10000

Abs(n) == IF n < 0 THEN 0 - n ELSE n

\* f"{r:.4f}"
human_rate(r) ==
    (IF r < 0 THEN <<"-">> ELSE <<>>)
        \o Digits(Abs(r) \div RateScale) \o <<".">> \o ZeroPad(Abs(r) % RateScale, 4)

RECURSIVE ToNat(_)
ToNat(s) == IF Len(s) = 0 THEN 0
            ELSE 10 * ToNat(SubSeq(s, 1, Len(s) - 1)) + DigitVal(s[Len(s)])

AllDigits(s) == \A i \in 1..Len(s) : IsDigit(s[i])

\* the pieces of s between occurrences of sep
RECURSIVE Split(_, _)
Split(s, sep) ==
    IF \A i \in 1..Len(s) : s[i] # sep THEN <<s>>
    ELSE LET k == CHOOSE i \in 1..Len(s) :
                      s[i] = sep /\ \A j \in 1..(i - 1) : s[j] # sep
         IN  <<SubSeq(s, 1, k - 1)>> \o Split(SubSeq(s, k + 1, Len(s)), sep)

\* ---------------------------------------------------------------- calendar
Date(y, m, d) == [year |-> y, month |-> m, day |-> d]

IsLeap(y) == (y % 4 = 0 /\ y % 100 # 0) \/ y % 400 = 0

DaysInMonth(y, m) ==
    IF m = 2 THEN (IF IsLeap(y) THEN 29 ELSE 28)
    ELSE IF m \in {4, 6, 9, 11} THEN 30 ELSE 31

\* date + timedelta(days=1)
NextDate(dt) ==
    IF dt.day < DaysInMonth(dt.year, dt.month) THEN Date(dt.year, dt.month, dt.day + 1)
    ELSE IF dt.month < 12 THEN Date(dt.year, dt.month + 1, 1)
    ELSE Date(dt.year + 1, 1, 1)

\* date - timedelta(days=1)
PrevDate(dt) ==
    IF dt.day > 1 THEN Date(dt.year, dt.month, dt.day - 1)
    ELSE IF dt.month > 1
         THEN Date(dt.year, dt.month - 1, DaysInMonth(dt.year, dt.month - 1))
    ELSE Date(dt.year - 1, 12, 31)

\* date < date
DateLT(a, b) ==
    \/ a.year < b.year
    \/ a.year = b.year /\ a.month < b.month
    \/ a.year = b.year /\ a.month = b.month /\ a.day < b.day

\* strftime('%Y-%m-%d')
FormatDate(dt) ==
    ZeroPad(dt.year, 4) \o <<"-">> \o ZeroPad(dt.month, 2) \o <<"-">> \o ZeroPad(dt.day, 2)

\* datetime.strptime(stem, "%Y-%m-%d"): four digits, then one or two digits
\* for month and for day, and the date must exist; None when it raises
StrptimeDate(stem) ==
    LET parts == Split(stem, "-") IN
    IF /\ Len(parts) = 3
       /\ Len(parts[1]) = 4 /\ AllDigits(parts[1])
       /\ Len(parts[2]) \in {1, 2} /\ AllDigits(parts[2])
       /\ Len(parts[3]) \in {1, 2} /\ AllDigits(parts[3])
    THEN LET y == ToNat(parts[1])
             m == ToNat(parts[2])
             d == ToNat(parts[3])
         IN  IF y >= 1 /\ m \in 1..12 /\ d >= 1 /\ d <= DaysInMonth(y, m)
             THEN Some(Date(y, m, d)) ELSE None
    ELSE None

\* ------------------------------------------------------------------- paths
\* a path is the sequence of its components, each a piece of text
JsonSuffix == <<".", "j", "s", "o", "n">>

PathName(p) == p[Len(p)]

PathParent(p) == SubSeq(p, 1, Len(p) - 1)

\* Path.stem: the name without its last suffix
PathStem(p) ==
    LET name == PathName(p)
        dots == {i \in 1..Len(name) : name[i] = "."}
        last == CHOOSE i \in dots : \A j \in dots : j <= i
    IN  IF dots # {} /\ 1 < last /\ last < Len(name)
        THEN SubSeq(name, 1, last - 1) ELSE name

\* fnmatch(name, "*.json")
MatchesJsonGlob(p) ==
    LET name == PathName(p) IN
    /\ Len(name) >= Len(JsonSuffix)
    /\ SubSeq(name, Len(name) - Len(JsonSuffix) + 1, Len(name)) = JsonSuffix

IsUnder(p, dir) == Len(p) > Len(dir) /\ SubSeq(p, 1, Len(dir)) = dir

\* a directory and all the directories above it
Ancestors(dir) == {SubSeq(dir, 1, k) : k \in 1..Len(dir)}

\* Path(os.environ.get("GITHUB_WORKSPACE", ".")).resolve(), the root all
\* paths of the model are relative to
repo_root == <<>>

DataRoot(root) == root \o << <<"data">> >>

\* ------------------------------------------------------------ file contents
\* json.dump(obj, f, ensure_ascii=False, indent=2); f.write("\n")
JsonDump(obj) == [kind |-> "json", obj |-> obj, newline |-> TRUE]

\* text that json.load rejects
Garbage == [kind |-> "garbage", obj |-> <<>>, newline |-> FALSE]

\* mutant of WriteFile: open(path, "a"), a second document after the first
WriteFile_append(fs, path, content) ==
    [p \in (DOMAIN fs) \cup {path} |->
        IF p # path THEN fs[p]
        ELSE IF path \in DOMAIN fs THEN Garbage ELSE content]

\* open(path, "w"): the file at path holds exactly content afterwards
WriteFile(fs, path, content) ==
    [p \in (DOMAIN fs) \cup {path} |-> IF p = path THEN content ELSE fs[p]]

\* ------------------------------------------------------- the script's functions
required_keys ==
    <<"total_users", "total_posts", "total_follows", "total_likes",
      "users_growth_rate_per_second", "last_update_time", "next_update_time">>

Raise(type, arg) == [raised |-> TRUE, exc |-> [type |-> type, arg |-> arg], value |-> <<>>]

Return(v) == [raised |-> FALSE, exc |-> [type |-> "", arg |-> ""], value |-> v]

\* mutant of fetch_stats: the required keys are not checked
fetch_stats_unvalidated(resp) ==
    IF resp.net # "ok" THEN Raise(resp.net, "")
    ELSE IF resp.status >= 400 THEN Raise("HTTPError", "")
    ELSE IF resp.body.kind # "json" THEN Raise("JSONDecodeError", "")
    ELSE Return(resp.body.obj)

\* fetch_stats() on the response the endpoint gives: requests.get raises on a
\* network failure, raise_for_status on a status >= 400, response.json() on a
\* body that is not JSON, and the validation on the first missing key
fetch_stats(resp) ==
    IF resp.net # "ok" THEN Raise(resp.net, "")
    ELSE IF resp.status >= 400 THEN Raise("HTTPError", "")
    ELSE IF resp.body.kind # "json" THEN Raise("JSONDecodeError", "")
    ELSE LET data == resp.body.obj
             missing == {i \in 1..Len(required_keys) : required_keys[i] \notin DOMAIN data}
         IN  IF missing # {}
             THEN Raise("ValueError",
                        required_keys[CHOOSE i \in missing : \A j \in missing : i <= j])
             ELSE Return(data)

\* mutant of ensure_archive_path: one file per month, named <YYYY-MM>.json
ensure_archive_path_monthly(root, dt) ==
    DataRoot(root)
        \o <<ZeroPad(dt.date.year, 4), ZeroPad(dt.date.month, 2)>>
        \o <<ZeroPad(dt.date.year, 4) \o <<"-">> \o ZeroPad(dt.date.month, 2)
                \o JsonSuffix>>

\* the path ensure_archive_path(root, dt) returns
ensure_archive_path(root, dt) ==
    DataRoot(root)
        \o <<ZeroPad(dt.date.year, 4), ZeroPad(dt.date.month, 2)>>
        \o <<FormatDate(dt.date) \o JsonSuffix>>

parse_snapshot_date(path) == StrptimeDate(PathStem(path))

\* data_root.rglob("*.json")
RGlobJson(fs, dir) == {p \in DOMAIN fs : IsUnder(p, dir) /\ MatchesJsonGlob(p)}

\* mutant of Candidates: today's date passes the filter (<= for <)
Candidates_up_to_today(fs, root, now_dt) ==
    {p \in RGlobJson(fs, DataRoot(root)) :
        /\ parse_snapshot_date(p) # None
        /\ ~DateLT(now_dt.date, TheValue(parse_snapshot_date(p)))}

\* the snapshots strictly older than today that the scan collects
Candidates(fs, root, now_dt) ==
    {p \in RGlobJson(fs, DataRoot(root)) :
        /\ parse_snapshot_date(p) # None
        /\ DateLT(TheValue(parse_snapshot_date(p)), now_dt.date)}

\* mutant of find_previous_snapshot: the scan alone, yesterday's path is not
\* tried first
find_previous_snapshot_scan_only(fs, dirs, root, now_dt) ==
    LET candidates == {p \in RGlobJson(fs, DataRoot(root)) :
                          /\ parse_snapshot_date(p) # None
                          /\ DateLT(TheValue(parse_snapshot_date(p)), now_dt.date)}
    IN  IF DataRoot(root) \notin dirs THEN {None}
        ELSE IF candidates = {} THEN {None}
        ELSE {Some(p) : p \in {c \in candidates :
                 \A q \in candidates :
                     ~DateLT(TheValue(parse_snapshot_date(c)),
                             TheValue(parse_snapshot_date(q)))}}

\* find_previous_snapshot(root, now_dt): the set of results it can return.
\* rglob yields in directory order and the sort is stable, so among
\* candidates of the same latest date any one can come last.
find_previous_snapshot(fs, dirs, root, now_dt) ==
    LET prev_date == PrevDate(now_dt.date)
        exact_prev == DataRoot(root)
                        \o <<ZeroPad(prev_date.year, 4), ZeroPad(prev_date.month, 2)>>
                        \o <<FormatDate(prev_date) \o JsonSuffix>>
        candidates == Candidates(fs, root, now_dt)
    IN  IF DataRoot(root) \notin dirs THEN {None}
        ELSE IF exact_prev \in DOMAIN fs THEN {Some(exact_prev)}
        ELSE IF candidates = {} THEN {None}
        ELSE {Some(p) : p \in {c \in candidates :
                 \A q \in candidates :
                     ~DateLT(TheValue(parse_snapshot_date(c)),
                             TheValue(parse_snapshot_date(q)))}}

\* load_json(path)
load_json(fs, path) ==
    IF path = None \/ TheValue(path) \notin DOMAIN fs THEN Return(None)
    ELSE IF fs[TheValue(path)].kind # "json" THEN Raise("JSONDecodeError", "")
    ELSE Return(Some(fs[TheValue(path)].obj))

\* dict.get(key, default)
Get(d, key, default) == IF key \in DOMAIN d THEN d[key] ELSE default

\* Python's truth value of an Optional[dict]: None and {} are false
Falsy(o) == o = None \/ DOMAIN TheValue(o) = {}

\* mutant of compute_deltas: zero deltas where there is nothing to compare with
compute_deltas_zero(current, previous) ==
    LET prev == IF previous = None THEN current ELSE TheValue(previous) IN
    <<Some(Get(current, "total_users", 0) - Get(prev, "total_users", 0)),
      Some(Get(current, "total_posts", 0) - Get(prev, "total_posts", 0)),
      Some(Get(current, "total_likes", 0) - Get(prev, "total_likes", 0)),
      Some(Get(current, "users_growth_rate_per_second", 0)
               - Get(prev, "users_growth_rate_per_second", 0))>>

\* compute_deltas(current, previous): (du, dp, dl, dr)
compute_deltas(current, previous) ==
    IF Falsy(previous) THEN <<None, None, None, None>>
    ELSE LET prev == TheValue(previous) IN
         <<Some(Get(current, "total_users", 0) - Get(prev, "total_users", 0)),
           Some(Get(current, "total_posts", 0) - Get(prev, "total_posts", 0)),
           Some(Get(current, "total_likes", 0) - Get(prev, "total_likes", 0)),
           Some(Get(current, "users_growth_rate_per_second", 0)
                    - Get(prev, "users_growth_rate_per_second", 0))>>

RECURSIVE Join(_, _)
\* sep.join(parts)
Join(parts, sep) ==
    IF Len(parts) = 0 THEN <<>>
    ELSE IF Len(parts) = 1 THEN parts[1]
    ELSE parts[1] \o <<sep>> \o Join(Tail(parts), sep)

\* compose_post_text(now_utc, current, deltas); the em dash, the up arrow and
\* the capital delta of the source are written "--", "^" and "d"
compose_post_text(now_utc, current, deltas) ==
    LET du == deltas[1]
        dp == deltas[2]
        dl == deltas[3]
        dr == deltas[4]
    IN  Join(<<
          <<"Bluesky Daily Stats -- ">> \o FormatDate(now_utc.date) \o <<" ">>
              \o ZeroPad(now_utc.hour, 2) \o <<":">> \o ZeroPad(now_utc.minute, 2)
              \o <<" UTC">>,
          <<"Users: ">> \o human_int(current["total_users"])
              \o (IF du # None THEN <<" (^">> \o human_int(TheValue(du)) \o <<")">> ELSE <<>>),
          <<"Posts: ">> \o human_int(current["total_posts"])
              \o (IF dp # None THEN <<" (^">> \o human_int(TheValue(dp)) \o <<")">> ELSE <<>>),
          <<"Likes: ">> \o human_int(current["total_likes"])
              \o (IF dl # None THEN <<" (^">> \o human_int(TheValue(dl)) \o <<")">> ELSE <<>>),
          <<"Growth rate: ">> \o human_rate(current["users_growth_rate_per_second"])
              \o <<"/s">>
              \o (IF dr # None THEN <<" (d">> \o human_rate(TheValue(dr)) \o <<"/s)">> ELSE <<>>)
        >>, "\n")

\* mutant of post_to_bluesky: only the handle is checked before the calls
post_to_bluesky_handle_only(text, handle, password, login_ok, send_ok) ==
    IF handle \in {None, Some("")}
    THEN [exc |-> Some("RuntimeError"), logins |-> 0, sends |-> 0, published |-> <<>>]
    ELSE IF ~login_ok \/ password \in {None, Some("")}
    THEN [exc |-> Some("LoginError"), logins |-> 1, sends |-> 0, published |-> <<>>]
    ELSE IF ~send_ok
    THEN [exc |-> Some("SendError"), logins |-> 1, sends |-> 1, published |-> <<>>]
    ELSE [exc |-> None, logins |-> 1, sends |-> 1, published |-> <<text>>]

\* post_to_bluesky(text) with the environment and the client's behaviour:
\* what it raises, and the calls it made on the client
post_to_bluesky(text, handle, password, login_ok, send_ok) ==
    IF handle \in {None, Some("")} \/ password \in {None, Some("")}
    THEN [exc |-> Some("RuntimeError"), logins |-> 0, sends |-> 0, published |-> <<>>]
    ELSE IF ~login_ok
    THEN [exc |-> Some("LoginError"), logins |-> 1, sends |-> 0, published |-> <<>>]
    ELSE IF ~send_ok
    THEN [exc |-> Some("SendError"), logins |-> 1, sends |-> 1, published |-> <<>>]
    ELSE [exc |-> None, logins |-> 1, sends |-> 1, published |-> <<text>>]

\* ------------------------------------------------------------ the environment
Snapshot(users, posts, follows, likes, rate, stamp) ==
    [total_users |-> users, total_posts |-> posts, total_follows |-> follows,
     total_likes |-> likes, users_growth_rate_per_second |-> rate,
     last_update_time |-> stamp, next_update_time |-> stamp]

SnapOld == Snapshot(900, 10, 5, 470, 20000, "t0")

SnapA == Snapshot(950, 20, 5, 480, 21000, "t1")

SnapB == Snapshot(1000, 20, 6, 500, 25000, "t2")

Without(d, key) == [k \in (DOMAIN d) \ {key} |-> d[k]]

HttpOk(obj) == [net |-> "ok", status |-> 200, body |-> JsonDump(obj)]

\* what the statistics endpoint can answer
Responses ==
    { HttpOk(SnapA), HttpOk(SnapB),
      HttpOk(Without(SnapA, "total_users")),
      HttpOk(Without(Without(SnapB, "total_likes"), "next_update_time")),
      [net |-> "ok", status |-> 200, body |-> Garbage],
      [net |-> "ok", status |-> 500, body |-> Garbage],
      [net |-> "ConnectionError", status |-> 0, body |-> Garbage],
      [net |-> "Timeout", status |-> 0, body |-> Garbage] }

\* os.environ.get(name): unset, empty or set
EnvValues == {None, Some(""), Some("secret")}

\* wall-clock times of day at which a run starts
ClockTimes == {[hour |-> 0, minute |-> 5], [hour |-> 23, minute |-> 59]}

FirstDay == Date(2023, 12, 30)

File(path, content) == [path |-> path, content |-> content]

Chars2023 == <<"2", "0", "2", "3">>

Chars12 == <<"1", "2">>

\* the archive layout data/<YYYY>/<MM>/<YYYY-MM-DD>.json written out for a
\* date, apart from the two places of the script that build such a path
LayoutPath(date) ==
    LET y == ZeroPad(date.year, 4)
        m == ZeroPad(date.month, 2)
        d == ZeroPad(date.day, 2)
    IN  << <<"data">>, y, m, y \o <<"-">> \o m \o <<"-">> \o d \o JsonSuffix >>

\* files an archive directory may hold before the first run, in groups that
\* are present or absent together
SeedGroups ==
    << \* an old snapshot
       { File(LayoutPath(Date(2023, 12, 28)), JsonDump(SnapOld)) },
       \* the snapshot of the day before the first day, damaged
       { File(LayoutPath(Date(2023, 12, 29)), Garbage) },
       \* an empty JSON object where the second day's snapshot belongs
       { File(LayoutPath(Date(2023, 12, 31)), JsonDump(<<>>)) },
       \* dated files outside the year/month layout
       { File(<< <<"data">>, <<"misc">>,
                 Chars2023 \o <<"-">> \o Chars12 \o <<"-", "2", "9">> \o JsonSuffix >>,
              JsonDump(SnapA)),
         File(<< <<"data">>, <<"misc">>,
                 Chars2023 \o <<"-">> \o Chars12 \o <<"-", "9">> \o JsonSuffix >>,
              JsonDump(SnapB)) },
       \* files the lookup has to ignore: no date in the name, no .json
       \* suffix, a date that does not exist, a date in the future
       { File(<< <<"data">>, <<"notes">> \o JsonSuffix >>, Garbage),
         File(<< <<"data">>, Chars2023, Chars12,
                 Chars2023 \o <<"-">> \o Chars12 \o <<"-", "2", "9", ".", "t", "x", "t">> >>,
              JsonDump(SnapB)),
         File(<< <<"data">>, Chars2023, Chars12,
                 Chars2023 \o <<"-">> \o Chars12 \o <<"-", "3", "2">> \o JsonSuffix >>,
              JsonDump(SnapB)),
         File(LayoutPath(Date(2024, 2, 1)), JsonDump(SnapB)) } >>

SeedFiles(chosen) == UNION {SeedGroups[i] : i \in chosen}

FileSystem(files) == [p \in {f.path : f \in files} |-> (CHOOSE f \in files : f.path = p).content]

DirsOf(fs) == UNION {Ancestors(PathParent(p)) : p \in DOMAIN fs}

\* ------------------------------------------------------------------- state
VARIABLES
    archive,       \* the files under the root: path -> content
    dirs,          \* the directories under the root
    utc_today,     \* the current UTC date
    days,          \* midnights passed since FirstDay
    runs,          \* invocations of the script so far
    pc,            \* where the running invocation is
    now_utc,       \* main: now_utc
    stats,         \* main: stats
    prev_path,     \* main: prev_path
    prev_stats,    \* main: prev_stats
    deltas,        \* main: deltas
    post_text,     \* main: post_text
    exc,           \* the exception propagating out of main()
    stdout,        \* what the invocation printed
    stderr,        \* the diagnostics of the invocation
    slept,         \* whether the invocation called time.sleep
    fetches,       \* requests.get calls of the invocation
    client,        \* calls the invocation made on the atproto client
    exit_code,     \* the status of sys.exit
    archive0,      \* history: the archive when the invocation started
    printed_first, \* history: the report was on stdout when publishing began
    failed_at,     \* history: the step of main() that raised
    response,      \* history: what the endpoint answered to the invocation
    environ,       \* history: the credentials the publish step found
    last_fetched,  \* history: date -> the stats the latest run of that date fetched
    written        \* history: the paths any invocation has written

vars == <<archive, dirs, utc_today, days, runs, pc, now_utc, stats, prev_path,
          prev_stats, deltas, post_text, exc, stdout, stderr, slept, fetches,
          client, exit_code, archive0, printed_first, failed_at,
          response, environ, last_fetched, written>>

run_vars == <<now_utc, stats, prev_path, prev_stats, deltas, post_text, exc,
              stdout, stderr, slept, fetches, client, exit_code, archive0,
              printed_first, failed_at, response, environ>>

NoExc == [type |-> "", arg |-> ""]

NoCalls == [logins |-> 0, sends |-> 0, published |-> <<>>]

NoResponse == [net |-> "", status |-> 0, body |-> Garbage]

NoEnviron == [read |-> FALSE, handle |-> None, password |-> None]

Init ==
    /\ \E chosen \in SUBSET (1..Len(SeedGroups)) :
           archive = FileSystem(SeedFiles(chosen))
    /\ dirs = DirsOf(archive)
    /\ utc_today = FirstDay
    /\ days = 0
    /\ runs = 0
    /\ pc = "idle"
    /\ now_utc = [date |-> FirstDay, hour |-> 0, minute |-> 0]
    /\ stats = <<>>
    /\ prev_path = None
    /\ prev_stats = None
    /\ deltas = <<None, None, None, None>>
    /\ post_text = <<>>
    /\ exc = NoExc
    /\ stdout = <<>>
    /\ stderr = <<>>
    /\ slept = FALSE
    /\ fetches = 0
    /\ client = NoCalls
    /\ exit_code = None
    /\ archive0 = archive
    /\ printed_first = FALSE
    /\ failed_at = ""
    /\ response = NoResponse
    /\ environ = NoEnviron
    /\ last_fetched = <<>>
    /\ written = {}

\* ----------------------------------------------------------------- actions
\* the paths whose file differs between two file systems
Changed(fs, gs) ==
    {p \in (DOMAIN fs) \cup (DOMAIN gs) :
        p \notin DOMAIN fs \/ p \notin DOMAIN gs \/ fs[p] # gs[p]}

\* the script is invoked: main() reads the clock and the workspace root
MainStart ==
    /\ pc \in {"idle", "exited"}
    /\ runs < MaxRuns
    /\ runs' = runs + 1
    /\ \E t \in ClockTimes :
           now_utc' = [date |-> utc_today, hour |-> t.hour, minute |-> t.minute]
    /\ stats' = <<>>
    /\ prev_path' = None
    /\ prev_stats' = None
    /\ deltas' = <<None, None, None, None>>
    /\ post_text' = <<>>
    /\ exc' = NoExc
    /\ stdout' = <<>>
    /\ stderr' = <<>>
    /\ slept' = FALSE
    /\ fetches' = 0
    /\ client' = NoCalls
    /\ exit_code' = None
    /\ archive0' = archive
    /\ printed_first' = FALSE
    /\ failed_at' = ""
    /\ response' = NoResponse
    /\ environ' = NoEnviron
    /\ pc' = "fetch"
    /\ UNCHANGED <<archive, dirs, utc_today, days, last_fetched, written>>

\* stats = fetch_stats()
FetchStats ==
    /\ pc = "fetch"
    /\ \E resp \in Responses :
         LET r == fetch_stats(resp) IN
         /\ fetches' = fetches + 1
         /\ response' = resp
         /\ IF r.raised
            THEN /\ exc' = r.exc
                 /\ failed_at' = "fetch"
                 /\ pc' = "raised"
                 /\ UNCHANGED <<stats, last_fetched>>
            ELSE /\ stats' = r.value
                 /\ last_fetched' =
                        [d \in (DOMAIN last_fetched) \cup {now_utc.date} |->
                            IF d = now_utc.date THEN r.value ELSE last_fetched[d]]
                 /\ pc' = "archive"
                 /\ UNCHANGED <<exc, failed_at>>
    /\ UNCHANGED <<environ, archive, dirs, utc_today, days, runs, now_utc, prev_path,
                   prev_stats, deltas, post_text, stdout, stderr, slept, client,
                   exit_code, archive0, printed_first, written>>

\* target_path = ensure_archive_path(...); mkdir; json.dump into it
ArchiveSnapshot ==
    /\ pc = "archive"
    /\ LET target_path == ensure_archive_path(repo_root, now_utc)
           fs == WriteFile(archive, target_path, JsonDump(stats))
       IN  /\ dirs' = dirs \cup Ancestors(PathParent(target_path))
           /\ archive' = fs
           /\ written' = written \cup {target_path} \cup Changed(archive, fs)
    /\ pc' = "locate"
    /\ UNCHANGED <<utc_today, days, runs, last_fetched>>
    /\ UNCHANGED run_vars

\* prev_path = find_previous_snapshot(repo_root, now_utc)
FindPrevious ==
    /\ pc = "locate"
    /\ prev_path' \in find_previous_snapshot(archive, dirs, repo_root, now_utc)
    /\ pc' = "load"
    /\ UNCHANGED <<response, environ, archive, dirs, utc_today, days, runs, now_utc, stats,
                   prev_stats, deltas, post_text, exc, stdout, stderr, slept,
                   fetches, client, exit_code, archive0, printed_first,
                   failed_at, last_fetched, written>>

\* prev_stats = load_json(prev_path) if prev_path else None
LoadPrevious ==
    /\ pc = "load"
    /\ LET r == IF prev_path # None THEN load_json(archive, prev_path) ELSE Return(None)
       IN  IF r.raised
           THEN /\ exc' = r.exc
                /\ failed_at' = "load"
                /\ pc' = "raised"
                /\ UNCHANGED prev_stats
           ELSE /\ prev_stats' = r.value
                /\ pc' = "compose"
                /\ UNCHANGED <<exc, failed_at>>
    /\ UNCHANGED <<response, environ, archive, dirs, utc_today, days, runs, now_utc, stats,
                   prev_path, deltas, post_text, stdout, stderr, slept, fetches,
                   client, exit_code, archive0, printed_first, last_fetched,
                   written>>

\* deltas = compute_deltas(...); post_text = compose_post_text(...)
ComposeReport ==
    /\ pc = "compose"
    /\ deltas' = compute_deltas(stats, prev_stats)
    /\ post_text' = compose_post_text(now_utc, stats, deltas')
    /\ pc' = "print"
    /\ UNCHANGED <<response, environ, archive, dirs, utc_today, days, runs, now_utc, stats,
                   prev_path, prev_stats, exc, stdout, stderr, slept, fetches,
                   client, exit_code, archive0, printed_first, failed_at,
                   last_fetched, written>>

\* print(post_text)
PrintReport ==
    /\ pc = "print"
    /\ stdout' = Append(stdout, post_text)
    /\ pc' = "publish"
    /\ UNCHANGED <<response, environ, archive, dirs, utc_today, days, runs, now_utc, stats,
                   prev_path, prev_stats, deltas, post_text, exc, stderr, slept,
                   fetches, client, exit_code, archive0, printed_first,
                   failed_at, last_fetched, written>>

Warning(type) == [kind |-> "Warning: Failed to post to Bluesky", exc |-> type]

\* mutant of Publish: no try/except, the exception leaves main()
Publish_uncaught ==
    /\ pc = "publish"
    /\ \E handle \in EnvValues, password \in EnvValues, login_ok \in BOOLEAN,
          send_ok \in BOOLEAN :
         LET r == post_to_bluesky(post_text, handle, password, login_ok, send_ok) IN
         /\ client' = [logins |-> r.logins, sends |-> r.sends, published |-> r.published]
         /\ exc' = IF r.exc # None THEN [type |-> TheValue(r.exc), arg |-> ""] ELSE exc
         /\ failed_at' = IF r.exc # None THEN "publish" ELSE failed_at
         /\ environ' = [read |-> TRUE, handle |-> handle, password |-> password]
         /\ pc' = IF r.exc # None THEN "raised" ELSE "return"
    /\ printed_first' = (stdout = <<post_text>>)
    /\ UNCHANGED <<response, archive, dirs, utc_today, days, runs, now_utc, stats,
                   prev_path, prev_stats, deltas, post_text, stdout, stderr, slept,
                   fetches, exit_code, archive0, last_fetched, written>>

\* try: post_to_bluesky(post_text) except Exception: print a warning
Publish ==
    /\ pc = "publish"
    /\ \E handle \in EnvValues, password \in EnvValues, login_ok \in BOOLEAN,
          send_ok \in BOOLEAN :
         LET r == post_to_bluesky(post_text, handle, password, login_ok, send_ok) IN
         /\ client' = [logins |-> r.logins, sends |-> r.sends, published |-> r.published]
         /\ stderr' = IF r.exc # None THEN Append(stderr, Warning(TheValue(r.exc)))
                      ELSE stderr
         /\ failed_at' = IF r.exc # None THEN "publish" ELSE failed_at
         /\ environ' = [read |-> TRUE, handle |-> handle, password |-> password]
    /\ printed_first' = (stdout = <<post_text>>)
    /\ pc' = "return"
    /\ UNCHANGED <<response, archive, dirs, utc_today, days, runs, now_utc, stats,
                   prev_path, prev_stats, deltas, post_text, exc, stdout, slept,
                   fetches, exit_code, archive0, last_fetched, written>>

\* return 0; sys.exit(main())
MainReturn ==
    /\ pc = "return"
    /\ exit_code' = Some(0)
    /\ pc' = "exited"
    /\ UNCHANGED <<response, environ, archive, dirs, utc_today, days, runs, now_utc, stats,
                   prev_path, prev_stats, deltas, post_text, exc, stdout, stderr,
                   slept, fetches, client, archive0, printed_first, failed_at,
                   last_fetched, written>>

\* mutant of ExceptHTTPError: the handler exits without time.sleep
ExceptHTTPError_no_sleep ==
    /\ pc = "raised"
    /\ exc.type = "HTTPError"
    /\ stderr' = Append(stderr, [kind |-> "HTTP error", exc |-> exc.type])
    /\ pc' = "exit1"
    /\ UNCHANGED <<response, environ, archive, dirs, utc_today, days, runs, now_utc,
                   stats, prev_path, prev_stats, deltas, post_text, exc, stdout,
                   slept, fetches, client, exit_code, archive0, printed_first,
                   failed_at, last_fetched, written>>

\* except requests.HTTPError: print, time.sleep(2)
ExceptHTTPError ==
    /\ pc = "raised"
    /\ exc.type = "HTTPError"
    /\ stderr' = Append(stderr, [kind |-> "HTTP error", exc |-> exc.type])
    /\ slept' = TRUE
    /\ pc' = "exit1"
    /\ UNCHANGED <<response, environ, archive, dirs, utc_today, days, runs, now_utc, stats,
                   prev_path, prev_stats, deltas, post_text, exc, stdout, fetches,
                   client, exit_code, archive0, printed_first, failed_at,
                   last_fetched, written>>

\* except Exception: print
ExceptException ==
    /\ pc = "raised"
    /\ exc.type # "HTTPError"
    /\ stderr' = Append(stderr, [kind |-> "Unhandled error", exc |-> exc.type])
    /\ pc' = "exit1"
    /\ UNCHANGED <<response, environ, archive, dirs, utc_today, days, runs, now_utc, stats,
                   prev_path, prev_stats, deltas, post_text, exc, stdout, slept,
                   fetches, client, exit_code, archive0, printed_first,
                   failed_at, last_fetched, written>>

\* sys.exit(1) at the end of either handler
SysExit1 ==
    /\ pc = "exit1"
    /\ exit_code' = Some(1)
    /\ pc' = "exited"
    /\ UNCHANGED <<response, environ, archive, dirs, utc_today, days, runs, now_utc, stats,
                   prev_path, prev_stats, deltas, post_text, exc, stdout, stderr,
                   slept, fetches, client, archive0, printed_first, failed_at,
                   last_fetched, written>>

\* midnight UTC passes between two invocations (main() reads the clock once,
\* so a midnight during an invocation changes nothing it does)
Midnight ==
    /\ pc \in {"idle", "exited"}
    /\ days < MaxDay
    /\ days' = days + 1
    /\ utc_today' = NextDate(utc_today)
    /\ UNCHANGED <<archive, dirs, runs, pc, last_fetched, written>>
    /\ UNCHANGED run_vars

Next ==
    \/ MainStart
    \/ FetchStats
    \/ ArchiveSnapshot
    \/ FindPrevious
    \/ LoadPrevious
    \/ ComposeReport
    \/ PrintReport
    \/ Publish
    \/ MainReturn
    \/ ExceptHTTPError
    \/ ExceptException
    \/ SysExit1
    \/ Midnight

Spec == Init /\ [][Next]_vars

\* ------------------------------------------------------------------ claims
\* vocabulary of the claims, stated apart from the script's own functions
Yesterday == LayoutPath(PrevDate(now_utc.date))

TodayFile == LayoutPath(now_utc.date)

\* the date a *.json file name stands for, None when it stands for none
NameDate(p) == IF MatchesJsonGlob(p) THEN StrptimeDate(PathStem(p)) ELSE None

\* the files under data/ whose name is a date strictly before today
EarlierFiles ==
    {p \in DOMAIN archive :
        /\ IsUnder(p, << <<"data">> >>)
        /\ NameDate(p) # None
        /\ DateLT(TheValue(NameDate(p)), now_utc.date)}

RequiredFields ==
    {"total_users", "total_posts", "total_follows", "total_likes",
     "users_growth_rate_per_second", "last_update_time", "next_update_time"}

NetworkFailure(resp) == resp.net \in {"ConnectionError", "Timeout"}

HttpFailure(resp) == resp.net = "ok" /\ resp.status >= 400

\* the fetch fails: transport failure, a body that is no JSON, a field missing
FetchFails(resp) ==
    \/ NetworkFailure(resp)
    \/ HttpFailure(resp)
    \/ resp.net = "ok" /\ resp.body.kind # "json"
    \/ resp.net = "ok" /\ resp.body.kind = "json"
           /\ ~(RequiredFields \subseteq DOMAIN resp.body.obj)

Answered == response # NoResponse

MissingCredentials ==
    environ.read /\ (environ.handle \in {None, Some("")}
                        \/ environ.password \in {None, Some("")})

\* C1: whenever yesterday's file exists at its canonical path, the lookup
\* returns exactly that file, whatever else the archive holds.
C1_ExactYesterdayPreferred ==
    (pc = "load" /\ Yesterday \in DOMAIN archive) => prev_path = Some(Yesterday)

\* C1 witness: the lookup returned yesterday's file from an archive that also
\* holds another file of the same date, today's file and a future-dated file.
C1_Witness ==
    /\ pc = "load"
    /\ prev_path = Some(Yesterday)
    /\ TodayFile \in DOMAIN archive
    /\ \E p \in DOMAIN archive :
           p # Yesterday /\ NameDate(p) = Some(PrevDate(now_utc.date))
    /\ \E p \in DOMAIN archive :
           NameDate(p) # None /\ DateLT(now_utc.date, TheValue(NameDate(p)))

\* C2: without yesterday's canonical file the lookup returns a dated file
\* strictly earlier than today that no other such file is later than, and
\* returns nothing exactly when there is no such file; today's file is never
\* the result.
C2_FallbackLatestEarlier ==
    (pc = "load" /\ Yesterday \notin DOMAIN archive) =>
        /\ (prev_path = None) <=> (EarlierFiles = {})
        /\ prev_path # None =>
              /\ TheValue(prev_path) \in EarlierFiles
              /\ \A q \in EarlierFiles :
                    ~DateLT(TheValue(NameDate(TheValue(prev_path))),
                            TheValue(NameDate(q)))
              /\ TheValue(prev_path) # TodayFile

\* C2 witness: the fallback chose among several earlier files while files it
\* has to ignore (no date, no .json suffix, future date, today) were present.
C2_Witness ==
    /\ pc = "load"
    /\ Yesterday \notin DOMAIN archive
    /\ prev_path # None
    /\ Cardinality(EarlierFiles) >= 2
    /\ TodayFile \in DOMAIN archive
    /\ \E p \in DOMAIN archive : p # TodayFile /\ p \notin EarlierFiles

\* C3: once the report is composed the run ends with exit code 0 whatever the
\* publish step does; the report was printed before publishing began and a
\* failed publish left a warning.
C3_PublishNeverFailsRun ==
    (pc \in {"return", "raised", "exit1", "exited"} /\ post_text # <<>>) =>
        /\ pc \in {"return", "exited"}
        /\ printed_first
        /\ stdout = <<post_text>>
        /\ failed_at = "publish" => Len(stderr) = 1 /\ stderr[1].kind = Warning("").kind
        /\ pc = "exited" => exit_code = Some(0)

\* C3 witness: a run whose login or send raised has exited with code 0.
C3_Witness ==
    /\ pc = "exited"
    /\ failed_at = "publish"
    /\ client.logins = 1
    /\ exit_code = Some(0)

\* C4: a failed fetch ends with exit code 1 and leaves the archive as it was:
\* nothing printed, nothing published.
C4_FailedFetchLeavesArchive ==
    (Answered /\ FetchFails(response)) =>
        /\ archive = archive0
        /\ dirs = DirsOf(archive0)
        /\ stdout = <<>>
        /\ client = NoCalls
        /\ ~environ.read
        /\ pc \in {"raised", "exit1", "exited"}
        /\ pc = "exited" => exit_code = Some(1)

\* C4 witness: a run whose response lacked a required field has exited with
\* code 1 over a non-empty archive.
C4_Witness ==
    /\ pc = "exited"
    /\ Answered
    /\ response.net = "ok" /\ response.status = 200 /\ response.body.kind = "json"
    /\ FetchFails(response)
    /\ exit_code = Some(1)
    /\ DOMAIN archive # {}

\* C5: between runs, every date on which a run fetched has exactly one file
\* written by the runs, at data/<YYYY>/<MM>/<YYYY-MM-DD>.json, holding the
\* snapshot of the latest run of that date.
C5_OneFilePerDate ==
    pc \in {"idle", "exited"} =>
        /\ \A d \in DOMAIN last_fetched :
              /\ LayoutPath(d) \in DOMAIN archive
              /\ archive[LayoutPath(d)].kind = "json"
              /\ archive[LayoutPath(d)].obj = last_fetched[d]
        /\ written = {LayoutPath(d) : d \in DOMAIN last_fetched}

\* C5 witness: the second run of a date has replaced the first run's snapshot.
C5_Witness ==
    /\ pc = "exited"
    /\ TodayFile \in DOMAIN archive0
    /\ TodayFile \in written
    /\ archive0[TodayFile] = JsonDump(SnapA)
    /\ archive[TodayFile] = JsonDump(SnapB)

\* the lines of the printed report
ReportLines == Split(post_text, "\n")

HasParenthesis(line) == \E i \in 1..Len(line) : line[i] \in {" (^", " (d"}

StartsWith(line, prefix) ==
    Len(line) >= Len(prefix) /\ SubSeq(line, 1, Len(prefix)) = prefix

\* the metrics of the report: line number, label, field, how its value prints
Metrics ==
    << [line |-> 2, label |-> "Users: ", key |-> "total_users", rate |-> FALSE],
       [line |-> 3, label |-> "Posts: ", key |-> "total_posts", rate |-> FALSE],
       [line |-> 4, label |-> "Likes: ", key |-> "total_likes", rate |-> FALSE],
       [line |-> 5, label |-> "Growth rate: ",
        key |-> "users_growth_rate_per_second", rate |-> TRUE] >>

Shown(m, v) == IF m.rate THEN human_rate(v) ELSE human_int(v)

\* every metric line shows the current value, and a parenthesis exactly when
\* its delta is present
ReportMatchesDeltas ==
    /\ Len(ReportLines) = 5
    /\ \A i \in 1..4 :
          LET m == Metrics[i] IN
          /\ StartsWith(ReportLines[m.line], <<m.label>> \o Shown(m, stats[m.key]))
          /\ HasParenthesis(ReportLines[m.line]) <=> (deltas[i] # None)
          /\ deltas[i] # None =>
                \E k \in 1..Len(ReportLines[m.line]) :
                    /\ ReportLines[m.line][k] \in {" (^", " (d"}
                    /\ StartsWith(SubSeq(ReportLines[m.line], k + 1,
                                         Len(ReportLines[m.line])),
                                  Shown(m, TheValue(deltas[i])))

\* C6 as claimed: with no previous snapshot, or with a previous snapshot file
\* that cannot be loaded, the run still prints the report and exits with 0.
C6_ToleratesMalformedHistory ==
    (/\ pc = "exited"
     /\ Answered /\ ~FetchFails(response)
     /\ (prev_path = None \/ archive[TheValue(prev_path)].kind # "json")) =>
        /\ exit_code = Some(0)
        /\ stdout = <<post_text>>
        /\ post_text # <<>>

C8_PauseOnEveryTransportFailure ==
    (pc = "exited" /\ Answered
        /\ (NetworkFailure(response) \/ HttpFailure(response))) =>
        /\ exit_code = Some(1)
        /\ slept
        /\ fetches = 1

\* C8 amended: every transport failure of the fetch exits with code 1 after a
\* single attempt; the pause precedes the exit exactly when the failure is a
\* non-success HTTP status, and a network-level failure exits without pause.
C8_PauseOnHttpStatusOnly ==
    (Answered /\ (NetworkFailure(response) \/ HttpFailure(response))) =>
        /\ fetches = 1
        /\ pc \in {"raised", "exit1", "exited"}
        /\ pc \in {"exit1", "exited"} => (slept <=> HttpFailure(response))
        /\ pc = "exited" => exit_code = Some(1)

\* C8 witness: a run that got a non-success status has paused and exited 1.
C8_Witness ==
    /\ pc = "exited"
    /\ HttpFailure(response)
    /\ slept
    /\ exit_code = Some(1)

\* C9: with the handle or the app password unset or empty the publish step
\* fails before any call on the client, and the run carries on with a warning.
C9_MissingCredentialsNoCall ==
    MissingCredentials =>
        /\ client = NoCalls
        /\ stderr = <<Warning("RuntimeError")>>
        /\ pc \in {"return", "exited"}
        /\ pc = "exited" => exit_code = Some(0)

\* C9 witness: a run with a handle and an empty password has exited.
C9_Witness ==
    /\ pc = "exited"
    /\ environ.read
    /\ environ.handle = Some("secret")
    /\ environ.password = Some("")
    /\ exit_code = Some(0)

\* C10: no step deletes a file; only the archive step changes one, and only
\* the file of the run's date; lookup, load and delta computation change none.
C10_ArchiveMonotone ==
    [][ /\ DOMAIN archive \subseteq DOMAIN archive'
        /\ Changed(archive, archive') \subseteq {TodayFile}
        /\ pc # "archive" => archive' = archive ]_vars

\* C10 witness: a run has added today's file and read an older one.
C10_Witness ==
    /\ pc = "print"
    /\ prev_stats # None
    /\ TodayFile \notin DOMAIN archive0
    /\ TodayFile \in DOMAIN archive
    /\ \A p \in DOMAIN archive0 : p \in DOMAIN archive /\ archive[p] = archive0[p]

====
